---- MODULE Spec2Model ----
(***************************************************************************)
(* Model of src/mastra/tools/design/search.py: DesignSearchEngine, a BM25   *)
(* search over seven CSV-backed design domains with a lazily built,         *)
(* per-domain index cache, and the design-system generator built on it.     *)
(*                                                                          *)
(* Text is modelled as sequences of one-character strings, so that          *)
(* lower(), split() and split(';') are computed rather than assumed.        *)
(* Scores are fixed-point numbers (1/10000 units) standing for the floats   *)
(* of rank_bm25.BM25Okapi.                                                  *)
(***************************************************************************)
EXTENDS Integers, Sequences, FiniteSets, TLC

(***************************************************************************)
(* Bounds of the model.                                                     *)
(***************************************************************************)
\* largest max_results passed to search(); the smallest is -1
MaxK == 2
\* number of top-level calls (search / design_system_generator) in a run
MaxCalls == 2
\* number of search() calls each concurrent thread makes
MaxThreadCalls == 1

(***************************************************************************)
(* Text helpers.                                                            *)
(***************************************************************************)
Range(s) == {s[i] : i \in 1..Len(s)}

\* str.lower() on one character of the model's alphabet
LowerChar(c) ==
    CASE c = "A" -> "a"
      [] c = "B" -> "b"
      [] OTHER -> c

\* str.lower()
Lower(s) == [i \in 1..Len(s) |-> LowerChar(s[i])]

IsSpace(c) == c = " "

RECURSIVE SplitWsFrom(_, _, _, _)
SplitWsFrom(s, i, cur, acc) ==
    IF i > Len(s)
    THEN IF cur = <<>> THEN acc ELSE Append(acc, cur)
    ELSE IF IsSpace(s[i])
         THEN SplitWsFrom(s, i + 1, <<>>, IF cur = <<>> THEN acc ELSE Append(acc, cur))
         ELSE SplitWsFrom(s, i + 1, Append(cur, s[i]), acc)

\* str.split(): split on runs of whitespace, no empty pieces
SplitWs(s) == SplitWsFrom(s, 1, <<>>, <<>>)

RECURSIVE SplitOnFrom(_, _, _, _, _)
SplitOnFrom(s, sep, i, cur, acc) ==
    IF i > Len(s)
    THEN Append(acc, cur)
    ELSE IF s[i] = sep
         THEN SplitOnFrom(s, sep, i + 1, <<>>, Append(acc, cur))
         ELSE SplitOnFrom(s, sep, i + 1, Append(cur, s[i]), acc)

\* str.split(sep): every separator cuts, empty pieces are kept
SplitOn(s, sep) == SplitOnFrom(s, sep, 1, <<>>, <<>>)

RECURSIVE JoinSp(_)
\* " ".join(parts)
JoinSp(parts) ==
    IF parts = <<>> THEN <<>>
    ELSE IF Len(parts) = 1 THEN parts[1]
    ELSE parts[1] \o <<" ">> \o JoinSp(Tail(parts))

(***************************************************************************)
(* Records: a csv.DictReader row is an ordered list of (key, value); a      *)
(* value is a string or None (a row shorter than the header).               *)
(***************************************************************************)
Str(chars) == [some |-> TRUE, s |-> chars]
None == [some |-> FALSE, s |-> <<>>]

\* Python truthiness of a field value: None and "" are falsy
Truthy(v) == v.some /\ v.s # <<>>

HasKey(row, key) == \E i \in 1..Len(row) : row[i].k = key

\* row[key] for a key that is present
Get(row, key) == row[CHOOSE i \in 1..Len(row) : row[i].k = key].v

\* row.get(key): None when the key is absent
GetOrNone(row, key) == IF HasKey(row, key) THEN Get(row, key) ELSE None

\* row.get(key, default)
GetOr(row, key, default) == IF HasKey(row, key) THEN Get(row, key) ELSE default

RECURSIVE TruthyValues(_)
TruthyValues(row) ==
    IF row = <<>> THEN <<>>
    ELSE IF Truthy(row[1].v)
         THEN <<row[1].v.s>> \o TruthyValues(Tail(row))
         ELSE TruthyValues(Tail(row))

\* build_index, lines 67-68: the tokens of one record
TokenizeDoc(row) == SplitWs(Lower(JoinSp(TruthyValues(row))))

\* search, line 76: the tokens of the query
TokenizeQuery(query) == SplitWs(Lower(query))

\* build_index, lines 64-69
TokenizeCorpus(docs) == [i \in 1..Len(docs) |-> TokenizeDoc(docs[i])]

(***************************************************************************)
(* rank_bm25.BM25Okapi, the index class the engine imports (line 15),       *)
(* constructs (line 71) and queries (line 89).  k1 = 1.5, b = 0.75,         *)
(* epsilon = 0.25 are its defaults; the engine passes none of them.         *)
(***************************************************************************)
\* math.log in fixed point: LnTable[n] = round(10000 * ln n)
LnTable ==
    <<0, 6931, 10986, 13863, 16094, 17918, 19459, 20794, 21972, 23026,
      23979, 24849, 25649, 26391, 27081>>

LnFP(n) == LnTable[n]

Count(tokens, w) == Cardinality({i \in 1..Len(tokens) : tokens[i] = w})

RECURSIVE SumLen(_)
SumLen(tok) == IF tok = <<>> THEN 0 ELSE Len(tok[1]) + SumLen(Tail(tok))

Vocabulary(tok) == UNION {Range(tok[i]) : i \in 1..Len(tok)}

\* nd[word]: the number of documents holding the word
DocFreq(tok, w) == Cardinality({i \in 1..Len(tok) : w \in Range(tok[i])})

\* log(N - n + 0.5) - log(n + 0.5), both arguments doubled
RawIdf(tok, w) ==
    LnFP(2 * Len(tok) - 2 * DocFreq(tok, w) + 1) - LnFP(2 * DocFreq(tok, w) + 1)

RECURSIVE SumRawIdf(_, _)
SumRawIdf(tok, words) ==
    IF words = {} THEN 0
    ELSE LET w == CHOOSE x \in words : TRUE
         IN  RawIdf(tok, w) + SumRawIdf(tok, words \ {w})

\* average_idf = idf_sum / len(idf) divides by zero when no document has a token
BM25Raises(tok) == Vocabulary(tok) = {}

\* BM25Okapi(tokenized_corpus): the statistics kept by the index.  A negative
\* idf is replaced by eps = epsilon * average_idf, whatever the sign of eps.
BM25Okapi(tok) ==
    LET vocab == Vocabulary(tok)
        raw   == [w \in vocab |-> RawIdf(tok, w)]
        eps   == SumRawIdf(tok, vocab) \div (4 * Cardinality(vocab))
    IN  [corpus_size |-> Len(tok),
         num_tokens  |-> SumLen(tok),
         doc_len     |-> [i \in 1..Len(tok) |-> Len(tok[i])],
         doc_freqs   |-> [i \in 1..Len(tok) |->
                            [w \in Range(tok[i]) |-> Count(tok[i], w)]],
         idf         |-> [w \in vocab |-> IF raw[w] < 0 THEN eps ELSE raw[w]]]

\* One query token's contribution to document i:
\*   idf * tf * (k1 + 1) / (tf + k1 * (1 - b + b * doc_len / avgdl))
\* with avgdl = num_tokens / corpus_size, numerator and denominator times
\* 8 * num_tokens.
ScoreTerm(index, q, i) ==
    LET tf  == IF q \in DOMAIN index.doc_freqs[i] THEN index.doc_freqs[i][q] ELSE 0
        idf == IF q \in DOMAIN index.idf THEN index.idf[q] ELSE 0
        T   == index.num_tokens
    IN  (idf * 20 * tf * T)
          \div (8 * tf * T + 3 * T + 9 * index.doc_len[i] * index.corpus_size)

RECURSIVE ScoreDoc(_, _, _)
ScoreDoc(index, qt, i) ==
    IF qt = <<>> THEN 0
    ELSE ScoreTerm(index, qt[1], i) + ScoreDoc(index, Tail(qt), i)

\* BM25Okapi.get_scores(query_tokens): one score per document, in load order
GetScores(index, qt) == [i \in 1..index.corpus_size |-> ScoreDoc(index, qt, i)]

(***************************************************************************)
(* DesignSearchEngine.                                                      *)
(***************************************************************************)
\* self.domains, in the order the dict is written (lines 30-38)
Domains == <<"product", "style", "color", "typography", "landing", "chart", "ux">>

DomainSet == Range(Domains)

\* the default of search()'s domain parameter
NoDomain == "None"

\* a Python dict: a function whose DOMAIN is the set of keys present
EmptyDict == [x \in {} |-> x]

\* dict[key] = value
Put(dict, key, value) ==
    [x \in DOMAIN dict \cup {key} |-> IF x = key THEN value ELSE dict[x]]

\* load_domain: a missing file gives [], an unreadable one raises from open()
\* or from the reader, a readable one gives its rows in file order
LoadDomain(source) ==
    CASE source.kind = "missing"    -> [raised |-> FALSE, docs |-> <<>>]
      [] source.kind = "unreadable" -> [raised |-> TRUE, docs |-> <<>>]
      [] OTHER                      -> [raised |-> FALSE, docs |-> source.rows]

\* build_index(domain) on the engine state st; files is what is on disk.
\* st.loads counts the calls of load_domain, st.builds the stores of line 71.
BuildIndex(files, st, d) ==
    LET got    == LoadDomain(files[d])
        loaded == [st EXCEPT !.loads[d] = @ + 1]
        tok    == TokenizeCorpus(got.docs)
    IN  IF got.raised THEN [loaded EXCEPT !.status = "OSError"]
        ELSE IF got.docs = <<>> THEN loaded
        ELSE IF BM25Raises(tok) THEN [loaded EXCEPT !.status = "ZeroDivisionError"]
        ELSE [loaded EXCEPT !.indices = Put(@, d, BM25Okapi(tok)),
                            !.builds[d] = @ + 1,
                            !.documents = Put(@, d, got.docs)]

\* A faulty variant of lines 83-84: a domain already indexed is loaded again
\* and its rows are added to the ones held, so the cache changes between calls.
EnsureBuiltAppending(files, st, d) ==
    IF d \notin DOMAIN st.indices THEN BuildIndex(files, st, d)
    ELSE LET docs == st.documents[d] \o LoadDomain(files[d]).docs
         IN  [st EXCEPT !.indices = Put(@, d, BM25Okapi(TokenizeCorpus(docs))),
                        !.documents = Put(@, d, docs)]

\* search, lines 83-84
EnsureBuilt(files, st, d) ==
    IF d \notin DOMAIN st.indices THEN BuildIndex(files, st, d) ELSE st

\* A faulty variant of line 92: score >= 0
KeepScoreNonNegative(score) == score >= 0

\* search, line 92
KeepScore(score) == score > 0

RECURSIVE MatchesFrom(_, _, _, _)
MatchesFrom(d, docs, scores, idx) ==
    IF idx > Len(scores) THEN <<>>
    ELSE IF KeepScore(scores[idx])
         THEN <<[domain   |-> d,
                 pos      |-> idx,
                 metadata |-> docs[idx],
                 score    |-> scores[idx]]>> \o MatchesFrom(d, docs, scores, idx + 1)
         ELSE MatchesFrom(d, docs, scores, idx + 1)

\* search, lines 89-98: the results one domain appends, in load order; pos is
\* the position of the record in self.documents[d]
Matches(d, index, docs, qt) == MatchesFrom(d, docs, GetScores(index, qt), 1)

\* search, lines 83-98: one turn of the loop over the domains
SearchDomain(files, st, d, qt) ==
    LET s1 == EnsureBuilt(files, st, d)
    IN  IF s1.status # "ok" THEN s1
        ELSE IF d \notin DOMAIN s1.indices THEN s1
        ELSE IF d \notin DOMAIN s1.documents THEN [s1 EXCEPT !.status = "KeyError"]
        ELSE IF s1.documents[d] = <<>> THEN s1
        ELSE [s1 EXCEPT !.results = @ \o Matches(d, s1.indices[d], s1.documents[d], qt)]

RECURSIVE SearchLoop(_, _, _, _)
SearchLoop(files, st, doms, qt) ==
    IF doms = <<>> \/ st.status # "ok" THEN st
    ELSE SearchLoop(files, SearchDomain(files, st, doms[1], qt), Tail(doms), qt)

RECURSIVE InsertDesc(_, _)
\* place r after every element whose score is >= r's
InsertDesc(sorted, r) ==
    IF sorted = <<>> THEN <<r>>
    ELSE IF sorted[1].score >= r.score
         THEN <<sorted[1]>> \o InsertDesc(Tail(sorted), r)
         ELSE <<r>> \o sorted

RECURSIVE SortFrom(_, _)
SortFrom(sorted, rest) ==
    IF rest = <<>> THEN sorted
    ELSE SortFrom(InsertDesc(sorted, rest[1]), Tail(rest))

RECURSIVE InsertBeforeEqual(_, _)
InsertBeforeEqual(sorted, r) ==
    IF sorted = <<>> THEN <<r>>
    ELSE IF sorted[1].score > r.score
         THEN <<sorted[1]>> \o InsertBeforeEqual(Tail(sorted), r)
         ELSE <<r>> \o sorted

RECURSIVE SortReversingFrom(_, _)
SortReversingFrom(sorted, rest) ==
    IF rest = <<>> THEN sorted
    ELSE SortReversingFrom(InsertBeforeEqual(sorted, rest[1]), Tail(rest))

\* A faulty variant of line 101: an ascending sort followed by a reversal,
\* which turns round the order of equal scores
SortDescReversingTies(results) == SortReversingFrom(<<>>, results)

\* results.sort(key=score, reverse=True): list.sort is stable, and with
\* reverse=True equal elements keep their original order
SortDesc(results) == SortFrom(<<>>, results)

Min(a, b) == IF a < b THEN a ELSE b
Max(a, b) == IF a > b THEN a ELSE b

\* A faulty variant of line 102: one element too many
SliceOffByOne(seq, n) == SubSeq(seq, 1, Min(Max(n, 0) + 1, Len(seq)))

\* seq[:n], a Python slice: a negative n counts from the end
Slice(seq, n) ==
    SubSeq(seq, 1, IF n >= 0 THEN Min(n, Len(seq)) ELSE Max(Len(seq) + n, 0))

\* seq[a:b] for 0 <= a <= b
SliceFrom(seq, a, b) == SubSeq(seq, Min(a, Len(seq)) + 1, Min(b, Len(seq)))

\* search, line 80
DomainsToSearch(domain) == IF domain # NoDomain THEN <<domain>> ELSE Domains

\* search(query, domain, max_results) on engine state eng = [indices,
\* documents, loads, builds]: the engine state after the call, with the
\* exception raised (status) or the list returned (results)
Search(files, eng, query, domain, k) ==
    LET st0 == [indices |-> eng.indices, documents |-> eng.documents,
                loads |-> eng.loads, builds |-> eng.builds,
                results |-> <<>>, status |-> "ok"]
        st  == SearchLoop(files, st0, DomainsToSearch(domain), TokenizeQuery(query))
    IN  IF st.status # "ok" THEN [st EXCEPT !.results = <<>>]
        ELSE [st EXCEPT !.results = Slice(SortDesc(st.results), k)]

(***************************************************************************)
(* design_system_generator and its two helpers.                             *)
(***************************************************************************)
\* max_results of the seven searches, lines 107-113, in the order made
GeneratorCaps == <<3, 3, 3, 3, 3, 5, 5>>

RECURSIVE GeneratorSearches(_, _, _, _)
\* lines 107-113: the seven filtered searches, one after the other; an
\* exception of one ends the call.  acc.lists[i] is the list of Domains[i].
GeneratorSearches(files, acc, query, i) ==
    IF i > Len(Domains) \/ acc.status # "ok" THEN acc
    ELSE LET r == Search(files, acc, query, Domains[i], GeneratorCaps[i])
         IN  GeneratorSearches(files,
                 [indices |-> r.indices, documents |-> r.documents,
                  loads |-> r.loads, builds |-> r.builds, status |-> r.status,
                  lists |-> Append(acc.lists, r.results)],
                 query, i + 1)

Metadata(results) == [i \in 1..Len(results) |-> results[i].metadata]

\* results[0].metadata if results else {}
FirstOrEmpty(results) == IF results # <<>> THEN results[1].metadata ELSE <<>>

\* _extract_anti_patterns, lines 145-148: str.split on a None value raises
AntiPatternsRaise(product_results) ==
    \E i \in 1..Min(2, Len(product_results)) :
        /\ HasKey(product_results[i].metadata, "anti_patterns")
        /\ ~Get(product_results[i].metadata, "anti_patterns").some

\* the phrases collected by lines 145-148, as the set line 150 makes of them
AntiPatternSet(product_results) ==
    UNION {Range(SplitOn(Get(product_results[i].metadata, "anti_patterns").s, ";")) :
             i \in {j \in 1..Min(2, Len(product_results)) :
                      HasKey(product_results[j].metadata, "anti_patterns")}}

Orderings(S) ==
    {o \in [1..Cardinality(S) -> S] : \A i, j \in 1..Cardinality(S) : o[i] = o[j] => i = j}

\* line 150, list(set(anti_patterns))[:5]: the order of a set of strings is
\* not fixed, so every order is a possible outcome
ExtractAntiPatterns(product_results) ==
    {Slice(o, 5) : o \in Orderings(AntiPatternSet(product_results))}

General == Str(<<"g", "e", "n", "e", "r", "a", "l">>)

RECURSIVE ChecklistFrom(_)
ChecklistFrom(results) ==
    IF results = <<>> THEN <<>>
    ELSE LET md == results[1].metadata
         IN  IF Truthy(GetOrNone(md, "guideline_name")) /\ Truthy(GetOrNone(md, "rule"))
             THEN <<[item     |-> Get(md, "guideline_name"),
                     rule     |-> Get(md, "rule"),
                     category |-> GetOr(md, "category", General)]>>
                   \o ChecklistFrom(Tail(results))
             ELSE ChecklistFrom(Tail(results))

\* _generate_checklist, lines 152-164
GenerateChecklist(ux_results) == ChecklistFrom(Slice(ux_results, 10))

\* lines 116-137 without anti_patterns; L[i] is the result list of Domains[i]
Document(L, anti_patterns) ==
    [recommendations |->
        [product         |-> FirstOrEmpty(L[1]),
         style           |-> FirstOrEmpty(L[2]),
         color_palette   |-> FirstOrEmpty(L[3]),
         typography      |-> FirstOrEmpty(L[4]),
         landing_pattern |-> FirstOrEmpty(L[5]),
         charts          |-> Metadata(Slice(L[6], 3)),
         ux_guidelines   |-> Metadata(Slice(L[7], 5))],
     alternatives |->
        [products         |-> Metadata(SliceFrom(L[1], 1, 3)),
         styles           |-> Metadata(SliceFrom(L[2], 1, 3)),
         colors           |-> Metadata(SliceFrom(L[3], 1, 3)),
         typography       |-> Metadata(SliceFrom(L[4], 1, 3)),
         landing_patterns |-> Metadata(SliceFrom(L[5], 1, 3))],
     anti_patterns |-> anti_patterns,
     checklist     |-> GenerateChecklist(L[7])]

\* what a call that returns no document leaves in its place
NoDocument == <<>>

(***************************************************************************)
(* The data directories the engine is run on, and the arguments of calls.   *)
(***************************************************************************)
Missing == [kind |-> "missing", rows |-> <<>>]
Unreadable == [kind |-> "unreadable", rows |-> <<>>]
File(rows) == [kind |-> "rows", rows |-> rows]

Named(name) == <<[k |-> "name", v |-> Str(name)]>>

Product(name, anti) == <<[k |-> "name", v |-> Str(name)], [k |-> "anti_patterns", v |-> anti]>>

Guideline(name, rule, category) ==
    <<[k |-> "guideline_name", v |-> Str(name)], [k |-> "rule", v |-> rule],
      [k |-> "category", v |-> category]>>

ProductRows ==
    <<Product(<<"A">>, Str(<<"x", ";", "y">>)),
      Product(<<"b">>, Str(<<"y", ";", "z">>)),
      Product(<<"c">>, None)>>

StyleRows == <<Named(<<"a", " ", "w">>), Named(<<"B", " ", "w">>), Named(<<"c">>)>>

UxRows ==
    <<Guideline(<<"a">>, Str(<<"r">>), Str(<<"c">>)),
      Guideline(<<"b">>, Str(<<>>), Str(<<"c">>)),
      Guideline(<<"c">>, None, None)>>

UxRowsNoCategory ==
    <<<<[k |-> "guideline_name", v |-> Str(<<"a">>)], [k |-> "rule", v |-> Str(<<"r">>)]>>,
      <<[k |-> "guideline_name", v |-> Str(<<"b">>)]>>>>

AllMissing == [d \in DomainSet |-> Missing]

\* three populated domains, one file with a header and no rows
Typical ==
    [AllMissing EXCEPT !["product"] = File(ProductRows), !["style"] = File(StyleRows),
                       !["color"] = File(<<>>), !["ux"] = File(UxRows)]

\* domains of one, two and three records
Small ==
    [AllMissing EXCEPT
        !["product"] = File(<<Named(<<"a">>), Named(<<"b">>)>>),
        !["style"]   = File(<<Named(<<"a">>)>>),
        !["color"]   = File(<<Named(<<"a", " ", "b">>), Named(<<"a">>), Named(<<"a">>)>>),
        !["chart"]   = File(<<Named(<<"a", " ", "x", " ", "w">>), Named(<<"a", " ", "y">>),
                              Named(<<"a", " ", "z", " ", "v">>)>>)]

\* one file that cannot be read, one whose only row has an empty value
Damaged ==
    [AllMissing EXCEPT !["product"] = File(ProductRows), !["style"] = Unreadable,
                       !["landing"] = File(<<Named(<<>>)>>),
                       !["ux"] = File(UxRowsNoCategory)]

DataDirs == {Typical, Small, Damaged}

Queries == {<<" ">>, <<"A">>, <<"a", " ", "b">>, <<"c">>}

DomainArgs == DomainSet \cup {NoDomain}

KArgs == (0 - 1)..MaxK

(***************************************************************************)
(* State.                                                                   *)
(***************************************************************************)
VARIABLES
    files,      \* data_dir: what each domain's CSV file holds; never written
    indices,    \* self.indices
    documents,  \* self.documents
    loads,      \* per domain, the calls of load_domain so far
    builds,     \* per domain, the indices stored by line 71 so far
    ncalls,     \* top-level calls made so far
    ret,        \* the last top-level call: its arguments and its outcome
    thr         \* the concurrent callers of search()

vars == <<files, indices, documents, loads, builds, ncalls, ret, thr>>

Engine == [indices |-> indices, documents |-> documents, loads |-> loads, builds |-> builds]

NoCall ==
    [op |-> "none", query |-> <<>>, domain |-> NoDomain, k |-> 0,
     status |-> "ok", results |-> <<>>, doc |-> NoDocument]

\* __init__, lines 28-40
InitEngine ==
    /\ files \in DataDirs
    /\ indices = EmptyDict
    /\ documents = EmptyDict
    /\ loads = [d \in DomainSet |-> 0]
    /\ builds = [d \in DomainSet |-> 0]

Init ==
    /\ InitEngine
    /\ ncalls = 0
    /\ ret = NoCall
    /\ thr = EmptyDict

\* engine.search(query, domain, max_results), as main() calls it (line 189)
DoSearch(query, domain, k) ==
    /\ ncalls < MaxCalls
    /\ \E r \in {Search(files, Engine, query, domain, k)} :
           /\ indices' = r.indices
           /\ documents' = r.documents
           /\ loads' = r.loads
           /\ builds' = r.builds
           /\ ret' = [op |-> "search", query |-> query, domain |-> domain, k |-> k,
                      status |-> r.status, results |-> r.results, doc |-> NoDocument]
    /\ ncalls' = ncalls + 1
    /\ UNCHANGED <<files, thr>>

\* engine.design_system_generator(query, project_name), lines 104-139;
\* project_name is only copied into the document and is left out
DoGenerate(query) ==
    /\ ncalls < MaxCalls
    /\ \E g \in {GeneratorSearches(files,
                    [indices |-> indices, documents |-> documents, loads |-> loads,
                     builds |-> builds, status |-> "ok", lists |-> <<>>], query, 1)} :
       LET out(status, doc) ==
               [op |-> "generate", query |-> query, domain |-> NoDomain, k |-> 0,
                status |-> status, results |-> <<>>, doc |-> doc]
       IN  /\ indices' = g.indices
           /\ documents' = g.documents
           /\ loads' = g.loads
           /\ builds' = g.builds
           /\ IF g.status # "ok" THEN ret' = out(g.status, NoDocument)
              ELSE IF AntiPatternsRaise(g.lists[1])
                   THEN ret' = out("AttributeError", NoDocument)
                   ELSE \E ap \in ExtractAntiPatterns(g.lists[1]) :
                            ret' = out("ok", Document(g.lists, ap))
    /\ ncalls' = ncalls + 1
    /\ UNCHANGED <<files, thr>>

Next ==
    \/ \E query \in Queries, domain \in DomainArgs, k \in KArgs : DoSearch(query, domain, k)
    \/ \E query \in Queries : DoGenerate(query)

Spec == Init /\ [][Next]_vars

(***************************************************************************)
(* Concurrent callers.  The engine takes no lock, so search() calls made    *)
(* from several threads on one engine interleave between the statements     *)
(* that read or write self.indices and self.documents.  Each thread has     *)
(* its own query_tokens, results and loop position; docs is build_index's   *)
(* local variable.                                                          *)
(***************************************************************************)
Threads == {"t1", "t2"}

ConcQueries == {<<"A">>}

IdleThread ==
    [pc |-> "idle", qt |-> <<>>, doms |-> <<>>, k |-> 0, docs |-> <<>>,
     results |-> <<>>, calls |-> 0, status |-> "ok", out |-> <<>>]

InitConc ==
    /\ InitEngine
    /\ ncalls = 0
    /\ ret = NoCall
    /\ thr = [t \in Threads |-> IdleThread]

\* the thread raises: the exception leaves search()
Raise(t, status) ==
    thr' = [thr EXCEPT ![t].pc = "idle", ![t].status = status, ![t].out = <<>>,
                       ![t].docs = <<>>, ![t].results = <<>>]

\* `continue`, or the end of the loop body: on to the next domain
NextDomain(t, results) ==
    thr' = [thr EXCEPT ![t].doms = Tail(@), ![t].docs = <<>>, ![t].results = results,
                       ![t].pc = IF Len(thr[t].doms) > 1 THEN "check" ELSE "sort"]

\* lines 76-80: a thread enters search()
TCall(t, query, domain, k) ==
    /\ thr[t].pc = "idle"
    /\ thr[t].calls < MaxThreadCalls
    /\ thr' = [thr EXCEPT ![t] = [pc |-> "check", qt |-> TokenizeQuery(query),
                                  doms |-> DomainsToSearch(domain), k |-> k,
                                  docs |-> <<>>, results |-> <<>>,
                                  calls |-> thr[t].calls + 1, status |-> "ok",
                                  out |-> <<>>]]
    /\ UNCHANGED <<files, indices, documents, loads, builds, ncalls, ret>>

\* line 83: if d not in self.indices
TCheck(t) ==
    /\ thr[t].pc = "check"
    /\ thr' = [thr EXCEPT ![t].pc =
                  IF thr[t].doms[1] \notin DOMAIN indices THEN "load" ELSE "guard"]
    /\ UNCHANGED <<files, indices, documents, loads, builds, ncalls, ret>>

\* lines 59-61: docs = self.load_domain(domain); if not docs: return
TLoad(t) ==
    /\ thr[t].pc = "load"
    /\ LET d   == thr[t].doms[1]
           got == LoadDomain(files[d])
       IN  /\ loads' = [loads EXCEPT ![d] = @ + 1]
           /\ IF got.raised THEN Raise(t, "OSError")
              ELSE thr' = [thr EXCEPT ![t].docs = got.docs,
                                      ![t].pc = IF got.docs = <<>> THEN "guard" ELSE "index"]
    /\ UNCHANGED <<files, indices, documents, builds, ncalls, ret>>

\* lines 64-71: tokenize, then self.indices[domain] = BM25Okapi(tokenized_corpus)
TStoreIndex(t) ==
    /\ thr[t].pc = "index"
    /\ LET d   == thr[t].doms[1]
           tok == TokenizeCorpus(thr[t].docs)
       IN  IF BM25Raises(tok)
           THEN /\ Raise(t, "ZeroDivisionError")
                /\ UNCHANGED <<indices, builds>>
           ELSE /\ indices' = Put(indices, d, BM25Okapi(tok))
                /\ builds' = [builds EXCEPT ![d] = @ + 1]
                /\ thr' = [thr EXCEPT ![t].pc = "docs"]
    /\ UNCHANGED <<files, documents, loads, ncalls, ret>>

\* line 72: self.documents[domain] = docs
TStoreDocs(t) ==
    /\ thr[t].pc = "docs"
    /\ documents' = Put(documents, thr[t].doms[1], thr[t].docs)
    /\ thr' = [thr EXCEPT ![t].pc = "guard", ![t].docs = <<>>]
    /\ UNCHANGED <<files, indices, loads, builds, ncalls, ret>>

\* line 86: if d not in self.indices or not self.documents[d]: continue
TGuard(t) ==
    /\ thr[t].pc = "guard"
    /\ LET d == thr[t].doms[1]
       IN  IF d \notin DOMAIN indices THEN NextDomain(t, thr[t].results)
           ELSE IF d \notin DOMAIN documents THEN Raise(t, "KeyError")
           ELSE IF documents[d] = <<>> THEN NextDomain(t, thr[t].results)
           ELSE thr' = [thr EXCEPT ![t].pc = "score"]
    /\ UNCHANGED <<files, indices, documents, loads, builds, ncalls, ret>>

\* lines 89-98: score the domain and append its matches
TScore(t) ==
    /\ thr[t].pc = "score"
    /\ LET d == thr[t].doms[1]
       IN  NextDomain(t, thr[t].results \o Matches(d, indices[d], documents[d], thr[t].qt))
    /\ UNCHANGED <<files, indices, documents, loads, builds, ncalls, ret>>

\* lines 101-102: sort, truncate, return
TReturn(t) ==
    /\ thr[t].pc = "sort"
    /\ thr' = [thr EXCEPT ![t].pc = "idle", ![t].results = <<>>,
                          ![t].out = Slice(SortDesc(thr[t].results), thr[t].k)]
    /\ UNCHANGED <<files, indices, documents, loads, builds, ncalls, ret>>

NextConc ==
    \/ \E t \in Threads, query \in ConcQueries, domain \in DomainArgs, k \in KArgs :
           TCall(t, query, domain, k)
    \/ \E t \in Threads : TCheck(t)
    \/ \E t \in Threads : TLoad(t)
    \/ \E t \in Threads : TStoreIndex(t)
    \/ \E t \in Threads : TStoreDocs(t)
    \/ \E t \in Threads : TGuard(t)
    \/ \E t \in Threads : TScore(t)
    \/ \E t \in Threads : TReturn(t)

SpecConc == InitConc /\ [][NextConc]_vars

(***************************************************************************)
(* What the data on disk determines, computed without the engine's cache.   *)
(***************************************************************************)
FreshEngine ==
    [indices |-> EmptyDict, documents |-> EmptyDict,
     loads |-> [d \in DomainSet |-> 0], builds |-> [d \in DomainSet |-> 0]]

Scorable(d) ==
    /\ files[d].kind = "rows"
    /\ files[d].rows # <<>>
    /\ ~BM25Raises(TokenizeCorpus(files[d].rows))

FileScores(d, qt) == GetScores(BM25Okapi(TokenizeCorpus(files[d].rows)), qt)

\* the records of the domains ds with a positive score for the query
PositiveMatches(ds, query) ==
    UNION {{[domain |-> d, pos |-> i, score |-> FileScores(d, TokenizeQuery(query))[i]] :
              i \in {j \in 1..Len(files[d].rows) :
                       FileScores(d, TokenizeQuery(query))[j] > 0}} :
             d \in {x \in ds : Scorable(x)}}

Returned == {[domain |-> ret.results[i].domain, pos |-> ret.results[i].pos,
              score |-> ret.results[i].score] : i \in 1..Len(ret.results)}

SearchReturned == ret.op = "search" /\ ret.status = "ok"

DomainPos(d) == CHOOSE i \in 1..Len(Domains) : Domains[i] = d

\* r1 comes before r2 in domain iteration order, then load order
Before(r1, r2) ==
    \/ DomainPos(r1.domain) < DomainPos(r2.domain)
    \/ r1.domain = r2.domain /\ r1.pos < r2.pos

(***************************************************************************)
(* Properties.                                                              *)
(***************************************************************************)

\* C1: whatever the query, the domain filter and max_results, the list
\* search() returns is in non-increasing score order and holds no result
\* whose score is <= 0.
C1_SortedPositive ==
    SearchReturned =>
        /\ \A i \in 1..Len(ret.results) : ret.results[i].score > 0
        /\ \A i, j \in 1..Len(ret.results) :
               i < j => ret.results[i].score >= ret.results[j].score

\* an unfiltered search whose best result comes from the last domain searched
C1_Witness ==
    /\ SearchReturned
    /\ ret.domain = NoDomain
    /\ Len(ret.results) >= 2
    /\ ret.results[1].domain = "ux"
    /\ ret.results[2].domain = "product"
    /\ ret.results[1].score > ret.results[2].score

\* C2: load_domain is called at most once per domain over any sequence of
\* calls, also for a domain whose file is missing or has no rows.
C2_LoadedAtMostOnce == \A d \in DomainSet : loads[d] <= 1

\* C3: under concurrent callers, the index of a domain is built at most once.
C3_BuiltAtMostOnce == \A d \in DomainSet : builds[d] <= 1

\* C4: a file that cannot be read does not make an unfiltered search fail;
\* the failure reaches the caller only of a search filtered on that domain.
C4_FailureContained ==
    /\ (ret.op = "search" /\ ret.domain = NoDomain) => ret.status # "OSError"
    /\ (ret.op = "search" /\ ret.domain # NoDomain /\ files[ret.domain].kind = "unreadable")
           => ret.status = "OSError"

\* C5 as stated: for every max_results k, the unfiltered search returns at
\* most k results, and exactly the positive-score matches of all domains when
\* there are at most k of them.
C5_CapForEveryK ==
    (SearchReturned /\ ret.domain = NoDomain) =>
        /\ Len(ret.results) <= ret.k
        /\ Cardinality(PositiveMatches(DomainSet, ret.query)) <= ret.k
               => Len(ret.results) = Cardinality(PositiveMatches(DomainSet, ret.query))

\* C5, amended: the same for every max_results k >= 0.
C5_CapForNaturalK ==
    (SearchReturned /\ ret.domain = NoDomain /\ ret.k >= 0) =>
        /\ Len(ret.results) <= ret.k
        /\ Cardinality(PositiveMatches(DomainSet, ret.query)) <= ret.k
               => Len(ret.results) = Cardinality(PositiveMatches(DomainSet, ret.query))

\* an unfiltered search that dropped matches to keep to max_results
C5_Witness ==
    /\ SearchReturned
    /\ ret.domain = NoDomain
    /\ ret.k = 2
    /\ Len(ret.results) = 2
    /\ Cardinality(PositiveMatches(DomainSet, ret.query)) > 2

\* C6: a search returns what the same search returns on an engine that has
\* cached nothing, whatever calls came before it; so any two searches with
\* the same arguments on the same files return the same list.
C6_Idempotent ==
    SearchReturned =>
        ret.results = Search(files, FreshEngine, ret.query, ret.domain, ret.k).results

\* a second call, filtered on a domain the first call indexed, that found
\* something in the cached index
C6_Witness ==
    /\ SearchReturned
    /\ ncalls = 2
    /\ ret.domain = "product"
    /\ ret.results # <<>>
    /\ loads["product"] = 1
    /\ loads["style"] = 1

\* C7: in an indexed domain, a record holding a query token scores strictly
\* higher than a record holding none, whose score is 0; and when exactly one
\* record holds a query token, the search filtered on the domain returns
\* that record alone, with a positive score.
C7_TermPresence ==
    \A d \in DOMAIN indices :
        LET qt     == TokenizeQuery(ret.query)
            sc     == GetScores(indices[d], qt)
            has(i) == \E w \in Range(qt) : w \in DOMAIN indices[d].doc_freqs[i]
            docs   == 1..indices[d].corpus_size
        IN  /\ \A i, j \in docs : (has(i) /\ ~has(j)) => (sc[j] = 0 /\ sc[i] > sc[j])
            /\ (/\ SearchReturned
                /\ ret.domain = d
                /\ ret.k >= 1
                /\ Cardinality({i \in docs : has(i)}) = 1)
                   => /\ Len(ret.results) = 1
                      /\ has(ret.results[1].pos)
                      /\ ret.results[1].score > 0

\* C8: design_system_generator does not fail on a record whose composition
\* field is missing or None: when its searches succeed it returns a document.
C8_GeneratorTolerant ==
    ret.op = "generate" => ret.status \in {"ok", "OSError", "ZeroDivisionError"}

\* C9: results of equal score are in domain iteration order, then load
\* order, and truncation comes after: every match left out ranks after
\* every result returned.
C9_TieOrder ==
    SearchReturned =>
        /\ \A i, j \in 1..Len(ret.results) :
               (i < j /\ ret.results[i].score = ret.results[j].score)
                   => Before(ret.results[i], ret.results[j])
        /\ \A m \in PositiveMatches(Range(DomainsToSearch(ret.domain)), ret.query) \ Returned :
               \A r \in Returned :
                   \/ r.score > m.score
                   \/ r.score = m.score /\ Before(r, m)

\* two results of equal score from two domains, a third match cut off
C9_Witness ==
    /\ SearchReturned
    /\ ret.domain = NoDomain
    /\ ret.k = 2
    /\ Len(ret.results) = 2
    /\ ret.results[1].score = ret.results[2].score
    /\ ret.results[1].domain = "product"
    /\ ret.results[2].domain = "style"
    /\ Cardinality(PositiveMatches(DomainSet, ret.query)) > 2

\* C10: whenever a thread is about to read the cache for a domain (lines 83,
\* 86, 89-98), a domain with an index also has its records, one per indexed
\* document, and no search fails looking the records up.
C10_CacheConsistent ==
    \A t \in DOMAIN thr :
        /\ thr[t].status # "KeyError"
        /\ thr[t].pc \in {"check", "guard", "score"} =>
               \A d \in DOMAIN indices :
                   /\ d \in DOMAIN documents
                   /\ Len(documents[d]) = indices[d].corpus_size

====
